---- MODULE Spec2Model ----
(***************************************************************************)
(* Water-Bill-Bot: the persistent ledger (DataManager), the billing        *)
(* engine (WaterBillBot.calculate_invoice / handle_reading) and the        *)
(* reminder fan-out jobs of src/main.py, as a state machine.               *)
(*                                                                         *)
(* Strings that the code builds or compares (user ids, "%Y-%m" period      *)
(* keys, invoice ids) are sequences of one-character strings, so that the  *)
(* formatting and the lexicographic comparison are computed, not assumed.  *)
(* Python floats are records: F(v) for the number v, NaN for float("nan"); *)
(* None is a third record of the same shape.                               *)
(***************************************************************************)
EXTENDS Integers, Sequences, FiniteSets, TLC

VARIABLES
    now,        \* wall clock, in seconds since StartYear-StartMonth-01 00:00:00
    data,       \* DataManager.data, the in-memory Document
    primary,    \* content of DATA_FILE (readings.json)
    backups,    \* BACKUP_DIR: file name -> [mtime, content]
    created,    \* names of the backups written so far (the log of create_backup)
    last,       \* what the last handler call was given and what it answered
    jobs,       \* the fan-out jobs: position of each loop and its counters
    phase,      \* "boot" before DataManager.__init__ has run, "run" after
    ncalls      \* number of handler calls made so far (bounds the runs)

vars == <<now, data, primary, backups, created, last, jobs, phase, ncalls>>

----------------------------------------------------------------------------
(* Bounds of the model *)

SecsPerDay == 12
DaysPerMonth == 2
StartYear == 2025
StartMonth == 11
MaxNow == 13
MaxMonths == 3
MaxCalls == 3
MaxLimit == 3
MaxActiveJobs == 1
MaxInFlight == 2
ExamplePrev == 100
ExampleCur == 145

(* Program constants *)

UNIT_PRICE == 700
MONTHLY_FEE == 250
REMINDER_DAY == 1
REMINDER_HOUR == 13
KEEP_LAST == 10

----------------------------------------------------------------------------
(* Floats, None *)

F(v) == [k |-> "num", v |-> v]
NaN == [k |-> "nan", v |-> 0]
None == [k |-> "none", v |-> 0]

IsNum(x) == x.k = "num"

\* Python's <  on floats: every comparison with nan is False
FloatLt(a, b) == IsNum(a) /\ IsNum(b) /\ a.v < b.v

FloatSub(a, b) == IF IsNum(a) /\ IsNum(b) THEN F(a.v - b.v) ELSE NaN

FloatMul(a, b) == IF IsNum(a) /\ IsNum(b) THEN F(a.v * b.v) ELSE NaN

FloatAdd(a, b) == IF IsNum(a) /\ IsNum(b) THEN F(a.v + b.v) ELSE NaN

\* truth value of a Python object: None, 0 and 0.0 are falsy, nan is truthy
Truthy(x) == x.k = "nan" \/ (x.k = "num" /\ x.v # 0)

\* x or y
PyOr(x, y) == IF Truthy(x) THEN x ELSE y

----------------------------------------------------------------------------
(* Strings as sequences of characters *)

DigitChars == <<"0", "1", "2", "3", "4", "5", "6", "7", "8", "9">>

\* code point order of the characters that occur: "-" < digits < "_" < "x"
Ord(c) ==
    CASE c = "-" -> 45
      [] c = "0" -> 48 [] c = "1" -> 49 [] c = "2" -> 50 [] c = "3" -> 51
      [] c = "4" -> 52 [] c = "5" -> 53 [] c = "6" -> 54 [] c = "7" -> 55
      [] c = "8" -> 56 [] c = "9" -> 57
      [] c = "_" -> 95
      [] c = "x" -> 120

RECURSIVE StrLess(_, _)
\* Python's < on str: lexicographic by code point, a proper prefix is smaller
StrLess(s, t) ==
    IF t = <<>> THEN FALSE
    ELSE IF s = <<>> THEN TRUE
    ELSE IF Ord(Head(s)) # Ord(Head(t)) THEN Ord(Head(s)) < Ord(Head(t))
    ELSE StrLess(Tail(s), Tail(t))

RECURSIVE ZeroPad(_, _)
\* the decimal digits of n, padded with zeros to at least width characters
ZeroPad(n, width) ==
    IF n < 10 /\ width <= 1 THEN <<DigitChars[n + 1]>>
    ELSE ZeroPad(n \div 10, width - 1) \o <<DigitChars[(n % 10) + 1]>>

\* int(user_id) succeeds: a non-empty run of decimal digits
ParsesAsInt(s) ==
    /\ s # <<>>
    /\ \A i \in 1..Len(s) : \E d \in 1..10 : s[i] = DigitChars[d]

----------------------------------------------------------------------------
(* The clock: datetime.datetime.now() and its strftime renderings *)

DayOf(t) == t \div SecsPerDay
SecOfDay(t) == t % SecsPerDay
MonthIndex(t) == (StartYear * 12) + (StartMonth - 1) + (DayOf(t) \div DaysPerMonth)
YearOf(t) == MonthIndex(t) \div 12
MonthOf(t) == (MonthIndex(t) % 12) + 1

\* today.strftime("%Y-%m")
YearMonth(t) == ZeroPad(YearOf(t), 4) \o <<"-">> \o ZeroPad(MonthOf(t), 2)

\* f"{month_name} {today.year}"
ArabicDate(t) == <<MonthOf(t), YearOf(t)>>

----------------------------------------------------------------------------
(* Python dicts are functions from keys to values *)

EmptyDict == [x \in {} |-> 0]

\* d.get(key, default)
DictGet(d, key, default) == IF key \in DOMAIN d THEN d[key] ELSE default

\* d with key removed
DictRemove(d, keys) == [x \in (DOMAIN d) \ keys |-> d[x]]

Min(a, b) == IF a < b THEN a ELSE b
Max(a, b) == IF a < b THEN b ELSE a

\* s[:n]
SliceTo(s, n) ==
    IF n >= 0 THEN SubSeq(s, 1, Min(n, Len(s)))
    ELSE SubSeq(s, 1, Max(Len(s) + n, 0))

----------------------------------------------------------------------------
(* DataManager: the Document *)

\* DataManager.initialize_data_structure
InitializeDataStructure(t) ==
    [version |-> "2.0",
     created_at |-> t,
     users |-> EmptyDict,
     invoices |-> EmptyDict,
     settings |-> [unit_price |-> UNIT_PRICE,
                   monthly_fee |-> MONTHLY_FEE,
                   currency |-> "rial",
                   reminder_day |-> REMINDER_DAY,
                   reminder_hour |-> REMINDER_HOUR]]

\* the placeholder held by `data` while no Document is loaded
NoDoc == [version |-> "", created_at |-> 0, users |-> EmptyDict,
          invoices |-> EmptyDict, settings |-> EmptyDict]

\* the record DataManager.get_user creates on a miss
DefaultUser(t) ==
    [first_name |-> "",
     username |-> "",
     reminder_enabled |-> TRUE,
     notification_time |-> "10:00",
     created_at |-> t,
     last_active |-> t]

\* get_user that hands out a new default record on every call
GetUserAlwaysDefault(d, user_id, t) ==
    [d EXCEPT !.users = (user_id :> DefaultUser(t)) @@ d.users]

\* DataManager.get_user: the Document after the call (write on miss)
GetUser(d, user_id, t) ==
    IF user_id \notin DOMAIN d.users
    THEN [d EXCEPT !.users = (user_id :> DefaultUser(t)) @@ d.users]
    ELSE d

\* update_user that rebuilds the users dict from the one record it touched
UpdateUserAlone(d, user_id, user_data, t) ==
    LET d1 == GetUser(d, user_id, t)
        merged == user_data @@ d1.users[user_id]
        stamped == ("last_active" :> t) @@ merged
    IN [d1 EXCEPT !.users = user_id :> stamped]

\* DataManager.update_user, up to the call of save_data
UpdateUser(d, user_id, user_data, t) ==
    LET d1 == GetUser(d, user_id, t)
        merged == user_data @@ d1.users[user_id]
        stamped == ("last_active" :> t) @@ merged
    IN [d1 EXCEPT !.users = (user_id :> stamped) @@ d1.users]

\* an invoice id built from the period alone
InvoiceIdPeriodOnly(invoice) == invoice.year_month

\* invoice_id = f"{user_id}_{invoice.year_month}"
InvoiceId(invoice) == invoice.user_id \o <<"_">> \o invoice.year_month

\* save_invoice without the refresh of the subscriber's cached reading
SaveInvoiceNoCache(d, invoice, t) ==
    LET d1 == GetUser(d, invoice.user_id, t)
    IN [d1 EXCEPT !.invoices = (InvoiceId(invoice) :> invoice) @@ d1.invoices]

\* DataManager.save_invoice, up to the call of save_data
SaveInvoice(d, invoice, t) ==
    LET d1 == GetUser(d, invoice.user_id, t)
        d2 == [d1 EXCEPT !.invoices = (InvoiceId(invoice) :> invoice) @@ d1.invoices]
        u2 == ("last_reading" :> invoice.current_reading) @@
              ("last_invoice_date" :> invoice.year_month) @@
              d2.users[invoice.user_id]
    IN [d2 EXCEPT !.users = (invoice.user_id :> u2) @@ d2.users]

\* DataManager.get_invoice
GetInvoice(d, invoice_id) == DictGet(d.invoices, invoice_id, None)

\* DataManager.get_invoice_by_month
GetInvoiceByMonth(d, user_id, year_month) ==
    GetInvoice(d, user_id \o <<"_">> \o year_month)

RECURSIVE SortByYearMonthAsc(_, _)
\* the sort without reverse=True
SortByYearMonthAsc(d, ids) ==
    IF ids = {} THEN <<>>
    ELSE LET low == CHOOSE i \in ids :
                       \A j \in ids : ~StrLess(d.invoices[j].year_month,
                                               d.invoices[i].year_month)
         IN <<d.invoices[low]>> \o SortByYearMonthAsc(d, ids \ {low})

RECURSIVE SortByYearMonthDesc(_, _)
\* invoices.sort(key=lambda x: x["year_month"], reverse=True), on invoice ids
SortByYearMonthDesc(d, ids) ==
    IF ids = {} THEN <<>>
    ELSE LET top == CHOOSE i \in ids :
                       \A j \in ids : ~StrLess(d.invoices[i].year_month,
                                               d.invoices[j].year_month)
         IN <<d.invoices[top]>> \o SortByYearMonthDesc(d, ids \ {top})

\* DataManager.get_user_invoices
GetUserInvoices(d, user_id, limit) ==
    LET mine == {i \in DOMAIN d.invoices : d.invoices[i].user_id = user_id}
    IN SliceTo(SortByYearMonthDesc(d, mine), limit)

\* DataManager.get_last_reading
GetLastReading(d, user_id) ==
    LET user_invoices == GetUserInvoices(d, user_id, 1)
    IN IF user_invoices # <<>> THEN user_invoices[1].current_reading ELSE None

\* the enumeration that does not look at the flag
GetAllUsersWhateverFlag(d) == DOMAIN d.users

\* DataManager.get_all_users_for_reminder, as the set of enumerated ids
GetAllUsersForReminder(d) ==
    {u \in DOMAIN d.users : DictGet(d.users[u], "reminder_enabled", TRUE)}

----------------------------------------------------------------------------
(* The files: DATA_FILE and BACKUP_DIR *)

\* json.dump(self.data, f): the file holds the text of the Document
JsonFile(d) == [kind |-> "json", doc |-> d, raw |-> ""]

\* os.path.exists(self.data_file) is False
AbsentFile == [kind |-> "absent", doc |-> NoDoc, raw |-> ""]

\* a file that is not the text of a Document: raw stands for its bytes
\*   "malformed"   text that is not JSON, e.g. a truncated document
\*   "undecodable" bytes that are not UTF-8, e.g. a document cut inside a
\*                 multi-byte character (names are written with
\*                 ensure_ascii=False)
BrokenFile(kind, raw) == [kind |-> kind, doc |-> NoDoc, raw |-> raw]

\* what open(..., encoding="utf-8") + json.load(f) raises on a file
JsonLoadError(file) ==
    CASE file.kind = "json" -> "none"
      [] file.kind = "malformed" -> "JSONDecodeError"
      [] file.kind = "undecodable" -> "UnicodeDecodeError"

\* the name f"water_bill_backup_{backup_type}_{%Y%m%d_%H%M%S}.json"; the
\* quarantine name f"corrupted_data_{%Y%m%d_%H%M%S}.json" has type "corrupted"
BackupName(backup_type, t) ==
    [type |-> backup_type, day |-> DayOf(t), sec |-> SecOfDay(t)]

\* the filter that looks at the extension only: f.endswith(".json")
IsJsonName(f) == f.type \in {"auto", "manual", "corrupted"}

\* f.startswith("water_bill_backup_") and f.endswith(".json")
IsBackupName(f) == f.type \in {"auto", "manual"}

\* the sweep that keeps the oldest files instead of the newest
CleanupKeepsOldest(dir, keep_last) ==
    LET backup_files == {f \in DOMAIN dir : f.type \in {"auto", "manual"}}
        excess == Cardinality(backup_files) - keep_last
    IN IF Cardinality(backup_files) > keep_last
       THEN {[x \in (DOMAIN dir) \ old |-> dir[x]] :
               old \in {D \in SUBSET backup_files :
                          /\ Cardinality(D) = excess
                          /\ \A x \in D : \A y \in backup_files \ D :
                                dir[x].mtime >= dir[y].mtime}}
       ELSE {dir}

\* DataManager.cleanup_old_backups: the directories it can leave.  The sort
\* by mtime is stable over the order of os.listdir, which is arbitrary, so
\* among files of equal mtime any may be the ones removed.
CleanupOldBackups(dir, keep_last) ==
    LET backup_files == {f \in DOMAIN dir : IsBackupName(f)}
        excess == Cardinality(backup_files) - keep_last
    IN IF Cardinality(backup_files) > keep_last
       THEN {DictRemove(dir, old) :
               old \in {D \in SUBSET backup_files :
                          /\ Cardinality(D) = excess
                          /\ \A x \in D : \A y \in backup_files \ D :
                                dir[x].mtime <= dir[y].mtime}}
       ELSE {dir}

\* create_backup that dumps a new empty Document instead of self.data
CreateBackupOfNewDocument(dir, d, backup_type, t, written) ==
    IF written
    THEN CleanupOldBackups(
             (BackupName(backup_type, t) :>
                 [mtime |-> t, content |-> JsonFile(InitializeDataStructure(t))])
             @@ dir,
             KEEP_LAST)
    ELSE {dir}

\* DataManager.create_backup: the directories it can leave; written = FALSE
\* is the except branch (the write raised, None is returned)
CreateBackup(dir, d, backup_type, t, written) ==
    IF written
    THEN CleanupOldBackups(
             (BackupName(backup_type, t) :> [mtime |-> t, content |-> JsonFile(d)]) @@ dir,
             KEEP_LAST)
    ELSE {dir}

\* any(today in f for f in os.listdir(...) if f.startswith("water_bill_backup_auto_"))
\* The only run of 8 digits in such a name is its %Y%m%d stamp.
BackupExists(dir, t) ==
    \E f \in DOMAIN dir : f.type = "auto" /\ f.day = DayOf(t)

\* DataManager.create_auto_backup
CreateAutoBackup(dir, d, t, written) ==
    IF ~BackupExists(dir, t) THEN CreateBackup(dir, d, "auto", t, written) ELSE {dir}

\* the ways a save can go:
\*   "ok"            every call succeeds
\*   "listdir_fails" os.listdir(BACKUP_DIR) raises in create_auto_backup
\*   "backup_fails"  the write of the backup file raises in create_backup
\*   "write_fails"   open(DATA_FILE, "w") raises
\*   "dump_fails"    json.dump raises after open has truncated DATA_FILE
IoOutcomes == {"ok", "listdir_fails", "backup_fails", "write_fails", "dump_fails"}

\* the exception save_data lets out: its except clause logs and re-raises
\* the exception it caught
SaveError(io) ==
    IF io \in {"listdir_fails", "write_fails", "dump_fails"} THEN "OSError" ELSE "none"

\* logger.info("backup created") of create_backup, reached from
\* create_auto_backup: the names it logs
AutoBackupLogged(dir, t, written) ==
    IF ~BackupExists(dir, t) /\ written THEN {BackupName("auto", t)} ELSE {}

\* json.dump of a float: a number token, or the token NaN; None is null
JsonNumber(x) ==
    CASE x.k = "num" -> [tok |-> "number", v |-> x.v]
      [] x.k = "nan" -> [tok |-> "NaN", v |-> 0]
      [] x.k = "none" -> [tok |-> "null", v |-> 0]

\* json.load of such a token
ParseNumber(j) ==
    CASE j.tok = "number" -> F(j.v)
      [] j.tok = "NaN" -> NaN
      [] j.tok = "null" -> None

\* the fields of an invoice and of a subscriber record that hold a float
FloatFields ==
    {"previous_reading", "current_reading", "consumption", "total_amount",
     "last_reading"}

\* json.dump(self.data, f, ensure_ascii=False, indent=2): the text written,
\* with every float as its token; strings, booleans and keys are written
\* as they are, in the order of the dicts
JsonDump(d) ==
    [d EXCEPT
       !.users = [u \in DOMAIN d.users |->
                    [f \in DOMAIN d.users[u] |->
                        IF f \in FloatFields THEN JsonNumber(d.users[u][f])
                        ELSE d.users[u][f]]],
       !.invoices = [i \in DOMAIN d.invoices |->
                       [f \in DOMAIN d.invoices[i] |->
                           IF f \in FloatFields THEN JsonNumber(d.invoices[i][f])
                           ELSE d.invoices[i][f]]]]

\* json.load(f) of such a text
JsonLoad(j) ==
    [j EXCEPT
       !.users = [u \in DOMAIN j.users |->
                    [f \in DOMAIN j.users[u] |->
                        IF f \in FloatFields THEN ParseNumber(j.users[u][f])
                        ELSE j.users[u][f]]],
       !.invoices = [i \in DOMAIN j.invoices |->
                       [f \in DOMAIN j.invoices[i] |->
                           IF f \in FloatFields THEN ParseNumber(j.invoices[i][f])
                           ELSE j.invoices[i][f]]]]

\* a caller that puts the Document back as it was when save_data raised
AfterSaveRollsBack(before, d, raised) == IF raised THEN before ELSE d

\* self.data once save_data has returned or raised: update_user and
\* save_invoice assign into self.data before they call save_data and have
\* no except clause, so what they assigned stays
AfterSave(before, d, raised) == d

\* a save that opens DATA_FILE for appending: a file that is there keeps
\* its text and gets the new text after it
SaveDataAppends(d, dir, file, t, io) ==
    IF io = "listdir_fails"
    THEN {[backups |-> dir, logged |-> {}, primary |-> file,
           raised |-> TRUE, error |-> SaveError(io)]}
    ELSE {[backups |-> nd,
           logged |-> AutoBackupLogged(dir, t, io # "backup_fails"),
           primary |-> CASE io = "write_fails" -> file
                         [] io = "dump_fails" -> BrokenFile("malformed", "cut")
                         [] file.kind # "absent" ->
                                BrokenFile("malformed", "appended")
                         [] OTHER -> JsonFile(d),
           raised |-> (SaveError(io) # "none"),
           error |-> SaveError(io)] :
             nd \in CreateAutoBackup(dir, d, t, io # "backup_fails")}

\* DataManager.save_data: the files it can leave, the backups it logged
\* and whether it raised
SaveData(d, dir, file, t, io) ==
    IF io = "listdir_fails"
    THEN {[backups |-> dir, logged |-> {}, primary |-> file,
           raised |-> TRUE, error |-> SaveError(io)]}
    ELSE {[backups |-> nd,
           logged |-> AutoBackupLogged(dir, t, io # "backup_fails"),
           primary |-> CASE io = "write_fails" -> file
                         [] io = "dump_fails" -> BrokenFile("malformed", "cut")
                         [] OTHER -> JsonFile(d),
           raised |-> (SaveError(io) # "none"),
           error |-> SaveError(io)] :
             nd \in CreateAutoBackup(dir, d, t, io # "backup_fails")}

\* DataManager.create_backup_before_fix: the directory after the call
\* (shutil.copy2 gives the copy the mtime of the source, which is not after
\* t; no operation reads the mtime of a quarantine file)
CreateBackupBeforeFix(dir, file, t, copied) ==
    IF file.kind # "absent" /\ copied
    THEN (BackupName("corrupted", t) :> [mtime |-> t, content |-> file]) @@ dir
    ELSE dir

\* DataManager.load_data: the Document returned and the directory left
LoadData(dir, file, t, copied) ==
    IF file.kind # "absent"
    THEN CASE JsonLoadError(file) = "none" ->
                [data |-> file.doc, backups |-> dir]
           [] JsonLoadError(file) = "JSONDecodeError" ->
                [data |-> InitializeDataStructure(t),
                 backups |-> CreateBackupBeforeFix(dir, file, t, copied)]
           [] OTHER ->
                [data |-> InitializeDataStructure(t), backups |-> dir]
    ELSE [data |-> InitializeDataStructure(t), backups |-> dir]

----------------------------------------------------------------------------
(* Billing engine *)

\* an Invoice that holds nothing, for the calls that produce none
NoInvoice ==
    [user_id |-> <<>>, year_month |-> <<>>, previous_reading |-> None,
     current_reading |-> None, consumption |-> None, total_amount |-> None,
     timestamp |-> 0, month_name |-> <<>>]

\* the comparison with its operands swapped
ReadingRejectedSwapped(current_reading, previous_reading) ==
    FloatLt(previous_reading, current_reading)

\* the comparison with <= for <
ReadingRejectedOrEqual(current_reading, previous_reading) ==
    FloatLt(current_reading, previous_reading) \/ current_reading = previous_reading

\* if current_reading < previous_reading: raise ValueError
ReadingRejected(current_reading, previous_reading) ==
    FloatLt(current_reading, previous_reading)

\* the total without the monthly fee
TotalBillNoFee(consumption) == FloatMul(consumption, F(UNIT_PRICE))

\* total_bill = consumption * UNIT_PRICE + MONTHLY_FEE
TotalBill(consumption) ==
    FloatAdd(FloatMul(consumption, F(UNIT_PRICE)), F(MONTHLY_FEE))

\* calculate_invoice with the tariff taken from the settings record
CalculateInvoiceFromSettings(d, user_id, current_reading, t) ==
    LET last_reading == GetLastReading(d, user_id)
        previous_reading == PyOr(last_reading, F(0))
        consumption == FloatSub(current_reading, previous_reading)
    IN IF ReadingRejected(current_reading, previous_reading)
       THEN [raised |-> TRUE, previous_reading |-> previous_reading,
             invoice |-> NoInvoice]
       ELSE [raised |-> FALSE, previous_reading |-> previous_reading,
             invoice |-> [user_id |-> user_id,
                          year_month |-> YearMonth(t),
                          previous_reading |-> previous_reading,
                          current_reading |-> current_reading,
                          consumption |-> consumption,
                          total_amount |->
                              FloatAdd(FloatMul(consumption, F(d.settings.unit_price)),
                                       F(d.settings.monthly_fee)),
                          timestamp |-> t,
                          month_name |-> ArabicDate(t)]]

\* WaterBillBot.calculate_invoice: raised is the ValueError
CalculateInvoice(d, user_id, current_reading, t) ==
    LET last_reading == GetLastReading(d, user_id)
        previous_reading == PyOr(last_reading, F(0))
        consumption == FloatSub(current_reading, previous_reading)
    IN IF ReadingRejected(current_reading, previous_reading)
       THEN [raised |-> TRUE, previous_reading |-> previous_reading,
             invoice |-> NoInvoice]
       ELSE [raised |-> FALSE, previous_reading |-> previous_reading,
             invoice |-> [user_id |-> user_id,
                          year_month |-> YearMonth(t),
                          previous_reading |-> previous_reading,
                          current_reading |-> current_reading,
                          consumption |-> consumption,
                          total_amount |-> TotalBill(consumption),
                          timestamp |-> t,
                          month_name |-> ArabicDate(t)]]

\* the comparison line of the invoice message; label "none" is no line
NoTrend == [label |-> "none", num |-> 0, den |-> 1, shown |-> 0]

\* f"{abs(change):.1f}": the tenths shown for num / den, the nearest tenth,
\* a tie going to the even one
ShownTenths(num, den) ==
    LET a == IF num < 0 THEN 0 - num ELSE num
        q == (a * 10) \div den
        r == (a * 10) % den
    IN IF 2 * r > den \/ (2 * r = den /\ q % 2 = 1) THEN q + 1 ELSE q

\* prev_invoice = user_invoices[1]
TrendAgainst(user_invoices) == user_invoices[2]

\* WaterBillBot.format_invoice_message, the part under show_comparison:
\* change = (consumption - prev) / prev * 100 is kept as the fraction
\* num / den; with a nan consumption both change > 0 and change < 0 are
\* False and the else branch is taken
FormatTrend(d, invoice) ==
    LET user_invoices == GetUserInvoices(d, invoice.user_id, 2)
    IN IF Len(user_invoices) > 1
       THEN LET prev_invoice == TrendAgainst(user_invoices)
                cur == invoice.consumption
                prev == prev_invoice.consumption
            IN IF FloatLt(F(0), prev)
               THEN IF IsNum(cur)
                    THEN LET num == (cur.v - prev.v) * 100
                         IN [label |-> IF num > 0 THEN "increase"
                                       ELSE IF num < 0 THEN "decrease"
                                       ELSE "unchanged",
                             num |-> num, den |-> prev.v,
                             shown |-> ShownTenths(num, prev.v)]
                    ELSE [NoTrend EXCEPT !.label = "unchanged"]
               ELSE NoTrend
       ELSE NoTrend

----------------------------------------------------------------------------
(* Inputs *)

\* str(update.effective_user.id): the ids the running bot is called with
RuntimeUserIds == {<<"1">>, <<"2">>}

\* the message texts: float(text) gives a number, nan, or raises ValueError
BadText == [k |-> "text", v |-> 0]
ReadingTexts ==
    {F(-1), F(0), F(ExamplePrev), F(ExampleCur), NaN, BadText}

FirstNames == {"Ali"}

----------------------------------------------------------------------------
(* The handlers *)

Answer(op, user_id, text, outcome, previous_reading, invoice_id, invoice) ==
    [op |-> op, user_id |-> user_id, text |-> text, outcome |-> outcome,
     previous_reading |-> previous_reading, invoice_id |-> invoice_id,
     invoice |-> invoice, trend |-> NoTrend,
     io |-> "ok", error |-> "none", saved |-> NoDoc, user |-> EmptyDict]

NoAnswer == Answer("none", <<>>, None, "none", None, <<>>, NoInvoice)

\* WaterBillBot.start
Start(user_id, first_name, io) ==
    /\ phase = "run"
    /\ LET d == UpdateUser(data, user_id,
                           [first_name |-> first_name, username |-> "",
                            last_active |-> now], now)
       IN \E r \in SaveData(d, backups, primary, now, io) :
                /\ data' = AfterSave(data, d, r.raised)
                /\ backups' = r.backups
                /\ created' = created \cup r.logged
                /\ primary' = r.primary
                /\ last' = [Answer("start", user_id, None,
                                   IF r.raised THEN "raised" ELSE "welcome",
                                   None, <<>>, NoInvoice)
                             EXCEPT !.io = io, !.error = r.error, !.saved = d]
    /\ UNCHANGED <<now, jobs, phase>>

\* WaterBillBot.toggle_reminder
ToggleReminder(user_id, io) ==
    /\ phase = "run"
    /\ LET d0 == GetUser(data, user_id, now)
           current_status == DictGet(d0.users[user_id], "reminder_enabled", TRUE)
           d == UpdateUser(d0, user_id, [reminder_enabled |-> ~current_status], now)
       IN \E r \in SaveData(d, backups, primary, now, io) :
                /\ data' = AfterSave(data, d, r.raised)
                /\ backups' = r.backups
                /\ created' = created \cup r.logged
                /\ primary' = r.primary
                /\ last' = [Answer("toggle_reminder", user_id, None,
                                   IF r.raised THEN "raised" ELSE "toggled",
                                   None, <<>>, NoInvoice)
                             EXCEPT !.io = io, !.error = r.error, !.saved = d]
    /\ UNCHANGED <<now, jobs, phase>>

\* WaterBillBot.show_reminder_settings: create_settings_keyboard calls
\* get_user and shows the flag of the record it returns; nothing is saved
ShowReminderSettings(user_id) ==
    /\ phase = "run"
    /\ LET d == GetUser(data, user_id, now)
           user_data == d.users[user_id]
       IN /\ data' = d
          /\ last' = [Answer("show_reminder_settings", user_id, None,
                             IF DictGet(user_data, "reminder_enabled", TRUE)
                             THEN "enabled" ELSE "disabled",
                             None, <<>>, NoInvoice)
                      EXCEPT !.user = user_data]
    /\ UNCHANGED <<now, primary, backups, created, jobs, phase>>

\* WaterBillBot.handle_reading
HandleReading(user_id, text, io) ==
    /\ phase = "run"
    /\ IF text = BadText
       THEN \* float(text) raised ValueError
            /\ last' = Answer("handle_reading", user_id, text, "invalid_input",
                              None, <<>>, NoInvoice)
            /\ UNCHANGED <<data, primary, backups, created>>
       ELSE LET c == CalculateInvoice(data, user_id, text, now)
            IN IF c.raised
               THEN \* except ValueError: "أقل من" is in the message
                    /\ last' = Answer("handle_reading", user_id, text,
                                      "invalid_reading", c.previous_reading,
                                      <<>>, NoInvoice)
                    /\ UNCHANGED <<data, primary, backups, created>>
               ELSE LET d == SaveInvoice(data, c.invoice, now)
                    IN \E r \in SaveData(d, backups, primary, now, io) :
                             /\ data' = AfterSave(data, d, r.raised)
                             /\ backups' = r.backups
                             /\ created' = created \cup r.logged
                             /\ primary' = r.primary
                             /\ last' = [Answer("handle_reading", user_id, text,
                                                IF r.raised THEN "server_error"
                                                ELSE "invoice",
                                                c.previous_reading,
                                                IF r.raised THEN <<>>
                                                ELSE InvoiceId(c.invoice),
                                                c.invoice)
                                         EXCEPT !.trend =
                                            IF r.raised THEN NoTrend
                                            ELSE FormatTrend(d, c.invoice),
                                                !.io = io,
                                                !.error = r.error,
                                                !.saved = d]
    /\ UNCHANGED <<now, jobs, phase>>

----------------------------------------------------------------------------
(* The clock *)

SecsPerMonth == SecsPerDay * DaysPerMonth

TickSecond ==
    /\ now < MaxNow
    /\ now' = now + 1
    /\ UNCHANGED <<data, primary, backups, created, last, jobs, phase>>

TickMonth ==
    /\ now + SecsPerMonth < MaxMonths * SecsPerMonth
    /\ now' = now + SecsPerMonth
    /\ UNCHANGED <<data, primary, backups, created, last, jobs, phase>>

----------------------------------------------------------------------------
(* The ledger and the billing engine, with a working filesystem *)

NoJobs == EmptyDict

\* a handler call, counted against MaxCalls
Counted(call) == ncalls < MaxCalls /\ call /\ ncalls' = ncalls + 1

\* a step of the clock or of a job
Uncounted(step) == step /\ UNCHANGED ncalls

Init ==
    /\ now = 0
    /\ data = InitializeDataStructure(0)
    /\ primary = AbsentFile
    /\ backups = EmptyDict
    /\ created = {}
    /\ last = NoAnswer
    /\ jobs = NoJobs
    /\ phase = "run"
    /\ ncalls = 0

Next ==
    \/ \E u \in RuntimeUserIds : \E text \in ReadingTexts :
          Counted(HandleReading(u, text, "ok"))
    \/ Uncounted(TickMonth)

Spec == Init /\ [][Next]_vars

----------------------------------------------------------------------------
(* The subscriber records: the handlers that go through get_user *)

NextSubscribers ==
    \/ \E u \in RuntimeUserIds : Counted(ShowReminderSettings(u))
    \/ \E u \in RuntimeUserIds : Counted(ToggleReminder(u, "ok"))
    \/ \E u \in RuntimeUserIds : \E n \in FirstNames :
          Counted(Start(u, n, "ok"))
    \/ Uncounted(TickMonth)

SpecSubscribers == Init /\ [][NextSubscribers]_vars

----------------------------------------------------------------------------
(* Start-up on the files an earlier run left: DataManager.__init__ *)

\* the primary files a start can find: none, a saved Document, a text that
\* is not JSON, bytes that are not UTF-8
InitialFiles ==
    {AbsentFile,
     JsonFile(InitializeDataStructure(0)),
     BrokenFile("malformed", "found"),
     BrokenFile("undecodable", "found")}

\* DataManager.__init__: self.data = self.load_data()
Boot(copied) ==
    /\ phase = "boot"
    /\ LET r == LoadData(backups, primary, now, copied)
       IN /\ data' = r.data
          /\ backups' = r.backups
    /\ phase' = "run"
    /\ last' = NoAnswer
    /\ UNCHANGED <<now, primary, created, jobs>>

\* the process ends; the files stay
Stop ==
    /\ phase = "run"
    /\ phase' = "boot"
    /\ data' = NoDoc
    /\ jobs' = NoJobs
    /\ last' = NoAnswer
    /\ UNCHANGED <<now, primary, backups, created>>

\* the process is killed inside the write of save_data (open(..., "w") has
\* truncated the file, json.dump has not finished): the primary file is
\* left cut, inside the text or inside a multi-byte character
CrashInSave(kind) ==
    /\ phase = "run"
    /\ primary.kind = "json"
    /\ BackupExists(backups, now)
    /\ primary' = BrokenFile(kind, "cut")
    /\ phase' = "boot"
    /\ data' = NoDoc
    /\ jobs' = NoJobs
    /\ last' = NoAnswer
    /\ UNCHANGED <<now, backups, created>>

InitLoad ==
    /\ now = 0
    /\ data = NoDoc
    /\ primary \in InitialFiles
    /\ backups = EmptyDict
    /\ created = {}
    /\ last = NoAnswer
    /\ jobs = NoJobs
    /\ phase = "boot"
    /\ ncalls = 0

NextLoad ==
    \/ Uncounted(Boot(TRUE))
    \/ Uncounted(Stop)
    \/ \E kind \in {"malformed", "undecodable"} : Uncounted(CrashInSave(kind))
    \/ \E n \in FirstNames : Counted(Start(<<"1">>, n, "ok"))
    \/ \E text \in {F(ExamplePrev), F(ExampleCur)} :
          Counted(HandleReading(<<"1">>, text, "ok"))
    \/ Uncounted(TickMonth)

SpecLoad == InitLoad /\ [][NextLoad]_vars

----------------------------------------------------------------------------
(* Backups: the /backup command and the two scheduled backup jobs *)

\* WaterBillBot.backup_command
BackupCommand ==
    /\ phase = "run"
    /\ backups' \in CreateBackup(backups, data, "manual", now, TRUE)
    /\ created' = created \cup {BackupName("manual", now)}
    /\ last' = Answer("backup_command", <<>>, None, "created", None, <<>>, NoInvoice)
    /\ UNCHANGED <<now, data, primary, jobs, phase>>

\* the ways a run of a backup job can go: every call succeeds,
\* os.listdir(BACKUP_DIR) raises, the write of the backup file raises
JobIoOutcomes == {"ok", "listdir_fails", "backup_fails"}

\* the job 'daily_backup', which is DataManager.create_auto_backup itself:
\* its os.listdir is in no try block, the write in create_backup is
DailyBackupJobOn(io) ==
    /\ phase = "run"
    /\ IF io = "listdir_fails"
       THEN /\ last' = [Answer("daily_backup", <<>>, None, "raised", None,
                               <<>>, NoInvoice)
                        EXCEPT !.io = io, !.error = "OSError"]
            /\ UNCHANGED <<backups, created>>
       ELSE /\ backups' \in CreateAutoBackup(backups, data, now, io = "ok")
            /\ created' = created \cup AutoBackupLogged(backups, now, io = "ok")
            /\ last' = [Answer("daily_backup", <<>>, None, "done", None,
                               <<>>, NoInvoice)
                        EXCEPT !.io = io]
    /\ UNCHANGED <<now, data, primary, jobs, phase>>

\* the job 'daily_backup' on a working filesystem
DailyBackupJob == DailyBackupJobOn("ok")

\* the job 'cleanup_backups', which is DataManager.cleanup_old_backups
\* itself: its whole body is in a try block that logs what it catches
CleanupJobOn(io) ==
    /\ phase = "run"
    /\ IF io = "listdir_fails"
       THEN backups' = backups
       ELSE backups' \in CleanupOldBackups(backups, KEEP_LAST)
    /\ last' = [Answer("cleanup_backups", <<>>, None, "done", None, <<>>,
                       NoInvoice)
                EXCEPT !.io = io]
    /\ UNCHANGED <<now, data, primary, created, jobs, phase>>

\* the job 'cleanup_backups' on a working filesystem
CleanupJob == CleanupJobOn("ok")

\* the runs start late in a day
StartOfRun == SecsPerDay - 2

\* the Document an earlier run saved
SavedDoc == InitializeDataStructure(0)

\* the directory an earlier run of the same day left: the automatic backup
\* of its first save and one manual backup in each of the next seconds
SameDayDir ==
    [f \in {BackupName("auto", 0)} \cup
           {BackupName("manual", t) : t \in 1..(KEEP_LAST - 1)}
       |-> [mtime |-> f.sec, content |-> JsonFile(SavedDoc)]]

\* a directory that holds more backups than the sweep keeps, all of the day before
CrowdedDir ==
    [f \in {[type |-> "manual", day |-> -1, sec |-> t] : t \in 0..(KEEP_LAST + 1)}
       |-> [mtime |-> f.sec - SecsPerDay, content |-> JsonFile(SavedDoc)]]

InitBackup ==
    /\ now = StartOfRun
    /\ \/ /\ backups = EmptyDict
          /\ primary = AbsentFile
          /\ data = InitializeDataStructure(now)
       \/ /\ backups \in {SameDayDir, CrowdedDir}
          /\ primary = JsonFile(SavedDoc)
          /\ data = SavedDoc
    /\ created = DOMAIN backups
    /\ last = NoAnswer
    /\ jobs = NoJobs
    /\ phase = "run"
    /\ ncalls = 0

NextBackup ==
    \/ \E n \in FirstNames : Counted(Start(<<"1">>, n, "ok"))
    \/ Uncounted(BackupCommand)
    \/ Uncounted(DailyBackupJob)
    \/ Uncounted(CleanupJob)
    \/ Uncounted(TickSecond)

SpecBackup == InitBackup /\ [][NextBackup]_vars

----------------------------------------------------------------------------
(* A start on a malformed primary file, followed by saves, backups and     *)
(* retention sweeps                                                         *)

InitQuarantine ==
    /\ now = StartOfRun
    /\ data = NoDoc
    /\ primary = BrokenFile("malformed", "found")
    /\ backups \in {EmptyDict, SameDayDir, CrowdedDir}
    /\ created = DOMAIN backups
    /\ last = NoAnswer
    /\ jobs = NoJobs
    /\ phase = "boot"
    /\ ncalls = 0

NextQuarantine ==
    \/ Uncounted(Boot(TRUE))
    \/ \E n \in FirstNames : Counted(Start(<<"1">>, n, "ok"))
    \/ Uncounted(BackupCommand)
    \/ Uncounted(DailyBackupJob)
    \/ Uncounted(CleanupJob)
    \/ Uncounted(TickSecond)

SpecQuarantine == InitQuarantine /\ [][NextQuarantine]_vars

----------------------------------------------------------------------------
(* A day of the running bot, from a first start with no files: the first   *)
(* save of the day falls in its first second and /backup is sent in every  *)
(* later second, so that no two files of the day share an mtime            *)

\* a save in the first second, or after the day's automatic backup was written
SaveOfBusyDay(first_name) ==
    /\ now = 0 \/ \E a \in created : a.type = "auto" /\ a.day = DayOf(now)
    /\ Start(<<"1">>, first_name, "ok")

\* /backup in a later second
BackupOfBusyDay == now > 0 /\ BackupCommand

\* the clock steps once /backup has been sent in this second
TickOfBusyDay ==
    /\ now = 0 \/ BackupName("manual", now) \in DOMAIN backups
    /\ TickSecond

NextBackupDay ==
    \/ \E n \in FirstNames : Counted(SaveOfBusyDay(n))
    \/ Uncounted(BackupOfBusyDay)
    \/ Uncounted(TickOfBusyDay)

SpecBackupDay == Init /\ [][NextBackupDay]_vars

----------------------------------------------------------------------------
(* Reminder fan-out: the three scheduled jobs and /force_reminders.  Each   *)
(* loop is suspended in every send (await), so a job is a sequence of       *)
(* steps; its local variables live in jobs[kind] until it returns.          *)

ScheduledKinds == {"monthly_reminder", "mid_month_reminder", "startup_notification"}

JobKinds == ScheduledKinds \cup {"force_reminders"}

\* the module has no `import asyncio` (asyncio.sleep raises NameError)
AsyncioImported == FALSE

\* the counters each loop declares before it starts
InitialCounters(kind) ==
    CASE kind = "monthly_reminder" -> [reminder_count |-> 0, failed_count |-> 0]
      [] kind = "mid_month_reminder" -> EmptyDict
      [] kind = "startup_notification" -> [count |-> 0]
      [] kind = "force_reminders" -> [success_count |-> 0, failed_count |-> 0]

\* c[name] += 1
Incremented(c, name) == (name :> (c[name] + 1)) @@ c

\* the counters after one pass of the loop body in which send_message was
\* called and returned (delivered) or raised
CountersAfterSend(kind, c, delivered) ==
    CASE kind = "monthly_reminder" ->
            IF delivered THEN Incremented(c, "reminder_count")
            ELSE Incremented(c, "failed_count")
      [] kind = "mid_month_reminder" -> c
      [] kind = "startup_notification" ->
            IF delivered THEN Incremented(c, "count") ELSE c
      [] kind = "force_reminders" ->
            IF delivered
            THEN IF AsyncioImported
                 THEN Incremented(c, "success_count")
                 ELSE \* success_count += 1; asyncio.sleep raises; except: failed_count += 1
                      Incremented(Incremented(c, "success_count"), "failed_count")
            ELSE Incremented(c, "failed_count")

\* a force-send that honours the reminder flag
EnumeratedFlaggedOnly(kind, d) == GetAllUsersForReminder(d)

\* users = ... : the subscribers the loop will iterate over
Enumerated(kind, d) ==
    IF kind = "force_reminders" THEN DOMAIN d.users ELSE GetAllUsersForReminder(d)

\* the job or the command starts and enumerates its recipients
JobStart(kind) ==
    /\ phase = "run"
    /\ kind \notin DOMAIN jobs
    /\ Cardinality(DOMAIN jobs \cap JobKinds) < MaxActiveJobs
    /\ LET users == Enumerated(kind, data)
       IN jobs' = (kind :> [users |-> users,
                            pending |-> users,
                            attempts |-> [u \in users |-> <<>>],
                            skipped |-> {},
                            counters |-> InitialCounters(kind)]) @@ jobs
    /\ UNCHANGED <<now, data, primary, backups, created, last, phase>>

\* one pass of the loop body, for a recipient not yet visited
JobSend(kind, user_id, delivered) ==
    /\ phase = "run"
    /\ kind \in DOMAIN jobs
    /\ user_id \in jobs[kind].pending
    /\ LET j == jobs[kind]
       IN IF kind = "force_reminders" /\ ~ParsesAsInt(user_id)
          THEN \* int(user_id) raised ValueError: continue
               /\ delivered
               /\ jobs' = (kind :> [j EXCEPT !.pending = @ \ {user_id},
                                             !.skipped = @ \cup {user_id}]) @@ jobs
          ELSE jobs' = (kind :>
                          [j EXCEPT !.pending = @ \ {user_id},
                                    !.attempts[user_id] =
                                        Append(@, IF delivered THEN "sent" ELSE "failed"),
                                    !.counters = CountersAfterSend(kind, @, delivered)])
                       @@ jobs
    /\ UNCHANGED <<now, data, primary, backups, created, last, phase>>

\* the loop is over: the job logs (or the command replies) its counters
JobEnd(kind) ==
    /\ phase = "run"
    /\ kind \in DOMAIN jobs
    /\ jobs[kind].pending = {}
    /\ last' = [op |-> kind, outcome |-> "done",
                users |-> jobs[kind].users,
                attempts |-> jobs[kind].attempts,
                skipped |-> jobs[kind].skipped,
                counters |-> jobs[kind].counters]
    /\ jobs' = DictRemove(jobs, {kind})
    /\ UNCHANGED <<now, data, primary, backups, created, phase>>

\* a subscriber record written before the reminder flag existed
OldUser(t) ==
    [first_name |-> "", username |-> "", created_at |-> t, last_active |-> t]

\* a ledger found at start that holds a subscriber whose id is not a number
\* and whose record has no reminder flag
LoadedDoc ==
    [InitializeDataStructure(0) EXCEPT
        !.users = (<<"1">> :> DefaultUser(0)) @@ (<<"x">> :> OldUser(0))]

InitFanout ==
    /\ now = 0
    /\ \/ data = InitializeDataStructure(0) /\ primary = AbsentFile
       \/ data = LoadedDoc /\ primary = JsonFile(LoadedDoc)
    /\ backups = EmptyDict
    /\ created = {}
    /\ last = NoAnswer
    /\ jobs = NoJobs
    /\ phase = "run"
    /\ ncalls = 0

NextFanout ==
    \/ \E kind \in JobKinds : Uncounted(JobStart(kind))
    \/ \E kind \in JobKinds : \E u \in DOMAIN data.users : \E delivered \in BOOLEAN :
          Uncounted(JobSend(kind, u, delivered))
    \/ \E kind \in JobKinds : Uncounted(JobEnd(kind))
    \/ Counted(ToggleReminder(<<"2">>, "ok"))

SpecFanout == InitFanout /\ [][NextFanout]_vars

----------------------------------------------------------------------------
(* A delivery call that does not return.  Each loop awaits send_message     *)
(* with no timeout argument and inside no wait_for, so the loop goes on     *)
(* only when the call returns or raises.  A send is two steps here: the     *)
(* call, and its return.                                                    *)

\* the subscribers for whom the delivery channel never answers
SilentUsers == {<<"1">>}

\* the recipient whose send the loop is suspended in, if any
Calling(j) ==
    {u \in j.pending : j.attempts[u] # <<>>
                          /\ j.attempts[u][Len(j.attempts[u])] = "calling"}

\* the loop reaches a recipient not yet visited and calls send_message
JobCall(kind, user_id) ==
    /\ phase = "run"
    /\ kind \in DOMAIN jobs
    /\ user_id \in jobs[kind].pending
    /\ Calling(jobs[kind]) = {}
    /\ LET j == jobs[kind]
       IN IF kind = "force_reminders" /\ ~ParsesAsInt(user_id)
          THEN \* int(user_id) raised ValueError: continue
               jobs' = (kind :> [j EXCEPT !.pending = @ \ {user_id},
                                          !.skipped = @ \cup {user_id}]) @@ jobs
          ELSE jobs' = (kind :> [j EXCEPT !.attempts[user_id] =
                                              Append(@, "calling")]) @@ jobs
    /\ UNCHANGED <<now, data, primary, backups, created, last, phase>>

\* send_message returns (delivered) or raises: the rest of the loop body
JobReturn(kind, user_id, delivered) ==
    /\ phase = "run"
    /\ kind \in DOMAIN jobs
    /\ user_id \in Calling(jobs[kind])
    /\ user_id \notin SilentUsers
    /\ LET j == jobs[kind]
           n == Len(j.attempts[user_id])
       IN jobs' = (kind :>
                     [j EXCEPT !.pending = @ \ {user_id},
                               !.attempts[user_id] =
                                   [@ EXCEPT ![n] = IF delivered THEN "sent"
                                                    ELSE "failed"],
                               !.counters = CountersAfterSend(kind, @, delivered)])
                  @@ jobs
    /\ UNCHANGED <<now, data, primary, backups, created, last, phase>>

NextStall ==
    \/ \E kind \in JobKinds : Counted(JobStart(kind))
    \/ \E kind \in JobKinds : \E u \in DOMAIN data.users :
          Uncounted(JobCall(kind, u))
    \/ \E kind \in JobKinds : \E u \in DOMAIN data.users :
          \E delivered \in BOOLEAN : Uncounted(JobReturn(kind, u, delivered))
    \/ \E kind \in JobKinds : Uncounted(JobEnd(kind))
    \/ \E u \in RuntimeUserIds : Counted(ToggleReminder(u, "ok"))

\* the event loop resumes every coroutine that can go on
FairStall ==
    \A kind \in JobKinds :
        /\ WF_vars(\E u \in RuntimeUserIds \cup DOMAIN LoadedDoc.users :
                      Uncounted(JobCall(kind, u)))
        /\ WF_vars(\E u \in RuntimeUserIds \cup DOMAIN LoadedDoc.users :
                      \E delivered \in BOOLEAN :
                          Uncounted(JobReturn(kind, u, delivered)))
        /\ WF_vars(Uncounted(JobEnd(kind)))

SpecStall == InitFanout /\ [][NextStall]_vars /\ FairStall

----------------------------------------------------------------------------
(* The scheduled jobs under delivery and filesystem failures, on a ledger   *)
(* with or without subscribers                                              *)

NextJobs ==
    \/ \E kind \in ScheduledKinds : Counted(JobStart(kind))
    \/ \E kind \in ScheduledKinds : \E u \in DOMAIN data.users :
          \E delivered \in BOOLEAN : Uncounted(JobSend(kind, u, delivered))
    \/ \E kind \in ScheduledKinds : Uncounted(JobEnd(kind))
    \/ \E io \in JobIoOutcomes : Counted(DailyBackupJobOn(io))
    \/ \E io \in JobIoOutcomes \ {"backup_fails"} : Counted(CleanupJobOn(io))
    \/ Uncounted(TickSecond)

SpecJobs == InitFanout /\ [][NextJobs]_vars

----------------------------------------------------------------------------
(* Interleaving on the event loop.  A coroutine runs from one await to the  *)
(* next without giving up the loop; handle_reading is entered, is suspended *)
(* in two send_action calls, runs its try block up to the reply with the    *)
(* invoice, and is suspended in that reply and in the reply that follows.   *)
(* A handler in flight lives in jobs[id] with its local variables.          *)

\* the updates that can be in flight together
UpdateNames == <<"update_a", "update_b", "update_c", "update_d">>
UpdateIds == {UpdateNames[i] : i \in 1..MaxInFlight}

\* a handle_reading whose try block would give up the loop between
\* calculate_invoice and save_invoice
ReadingSegmentsSplit == <<{}, {"calculate"}, {"save"}, {}>>

\* what handle_reading runs when it is resumed from its k-th await: nothing
\* after the first send_action; calculate_invoice, save_invoice and
\* format_invoice_message after the second; nothing after either reply
ReadingSegments == <<{}, {"calculate", "save"}, {}, {}>>

NoCalc == [raised |-> FALSE, previous_reading |-> None, invoice |-> NoInvoice]

\* float(text) and calculate_invoice: raised is either ValueError
ReadingCalc(d, user_id, text, t) ==
    IF text = BadText
    THEN [raised |-> TRUE, previous_reading |-> None, invoice |-> NoInvoice]
    ELSE CalculateInvoice(d, user_id, text, t)

\* the id the next update gets
FreeUpdateId ==
    UpdateNames[CHOOSE i \in 1..MaxInFlight :
                    /\ UpdateNames[i] \notin DOMAIN jobs
                    /\ \A j \in 1..(i - 1) : UpdateNames[j] \in DOMAIN jobs]

\* handle_reading is entered and is suspended in its first send_action
ReadingArrives(user_id, text) ==
    /\ phase = "run"
    /\ UpdateIds \ DOMAIN jobs # {}
    /\ jobs' = (FreeUpdateId :> [op |-> "handle_reading", user_id |-> user_id,
                                 text |-> text, at |-> 1, c |-> NoCalc]) @@ jobs
    /\ UNCHANGED <<now, data, primary, backups, created, last, phase>>

\* the await a suspended handle_reading is in returns, and the handler runs
\* to its next await or to its end
ReadingResume(id) ==
    /\ phase = "run"
    /\ id \in DOMAIN jobs \cap UpdateIds
    /\ LET h == jobs[id]
           seg == ReadingSegments[h.at]
           c == IF "calculate" \in seg
                THEN ReadingCalc(data, h.user_id, h.text, now) ELSE h.c
           rejected == "calculate" \in seg /\ c.raised
           saves == "save" \in seg /\ ~c.raised
           ends == h.at = Len(ReadingSegments)
       IN /\ jobs' = IF ends THEN DictRemove(jobs, {id})
                     ELSE (id :> [h EXCEPT !.at = IF rejected
                                                 THEN Len(ReadingSegments)
                                                 ELSE @ + 1,
                                           !.c = c]) @@ jobs
          /\ IF saves
             THEN LET d == SaveInvoice(data, c.invoice, now)
                  IN /\ data' = d
                     /\ \E r \in SaveData(d, backups, primary, now, "ok") :
                           /\ backups' = r.backups
                           /\ created' = created \cup r.logged
                           /\ primary' = r.primary
                           /\ last' = [Answer("handle_reading", h.user_id, h.text,
                                              "invoice", c.previous_reading,
                                              InvoiceId(c.invoice), c.invoice)
                                       EXCEPT !.trend = FormatTrend(d, c.invoice),
                                              !.saved = d]
             ELSE /\ last' = IF rejected
                             THEN Answer("handle_reading", h.user_id, h.text,
                                         IF h.text = BadText THEN "invalid_input"
                                         ELSE "invalid_reading",
                                         c.previous_reading, <<>>, NoInvoice)
                             ELSE last
                  /\ UNCHANGED <<data, primary, backups, created>>
    /\ UNCHANGED <<now, phase>>

InterleavedTexts == {F(ExamplePrev), F(ExampleCur)}

NextInterleaved ==
    \/ \E text \in InterleavedTexts : Counted(ReadingArrives(<<"1">>, text))
    \/ \E id \in UpdateIds : Uncounted(ReadingResume(id))
    \/ \E u \in RuntimeUserIds : Counted(ToggleReminder(u, "ok"))
    \/ Counted(JobStart("monthly_reminder"))
    \/ \E u \in DOMAIN data.users :
          Uncounted(JobSend("monthly_reminder", u, TRUE))
    \/ Uncounted(JobEnd("monthly_reminder"))
    \/ Uncounted(TickMonth)

SpecInterleaved == Init /\ [][NextInterleaved]_vars

----------------------------------------------------------------------------
(* A running bot: handlers, backups, sweeps and reminder jobs together.     *)
(* Handler calls and job starts are counted against MaxCalls; the sends and *)
(* the end of a started job, and the clock, are not.                        *)

\* a reading that passes the validation again and again
AcceptedTexts == {F(ExamplePrev)}

NextRun ==
    \/ \E u \in RuntimeUserIds : \E text \in AcceptedTexts :
          Counted(HandleReading(u, text, "ok"))
    \/ Counted(ShowReminderSettings(<<"2">>))
    \/ Counted(ToggleReminder(<<"2">>, "ok"))
    \/ Counted(BackupCommand)
    \/ Counted(DailyBackupJob)
    \/ Counted(CleanupJob)
    \/ Counted(JobStart("monthly_reminder"))
    \/ \E u \in DOMAIN data.users :
          Uncounted(JobSend("monthly_reminder", u, TRUE))
    \/ Uncounted(JobEnd("monthly_reminder"))
    \/ Uncounted(TickMonth)

SpecRun == Init /\ [][NextRun]_vars

----------------------------------------------------------------------------
(* The handlers on a filesystem that can fail in every call of a save *)

NextFail ==
    \/ \E n \in FirstNames : \E io \in IoOutcomes : Counted(Start(<<"1">>, n, io))
    \/ \E io \in IoOutcomes : Counted(ToggleReminder(<<"1">>, io))
    \/ \E text \in {F(ExamplePrev), F(ExampleCur)} : \E io \in IoOutcomes :
          Counted(HandleReading(<<"1">>, text, io))
    \/ Uncounted(TickMonth)

SpecFail == Init /\ [][NextFail]_vars

----------------------------------------------------------------------------
(* The saves and the daily backup job, on a filesystem that can fail *)

NextSaveBackup ==
    \/ \E io \in IoOutcomes : Counted(ToggleReminder(<<"1">>, io))
    \/ \E text \in {F(ExamplePrev), F(ExampleCur)} : \E io \in IoOutcomes :
          Counted(HandleReading(<<"1">>, text, io))
    \/ \E io \in JobIoOutcomes : Counted(DailyBackupJobOn(io))
    \/ Uncounted(TickMonth)

SpecSaveBackup == Init /\ [][NextSaveBackup]_vars

----------------------------------------------------------------------------
(* A ledger whose settings record is not the one initialize_data_structure *)
(* writes: load_data returns what json.load read                            *)

EditedUnitPrice == 900
EditedMonthlyFee == 100

\* the settings records a ledger file can hold
SettingsChoices ==
    {[InitializeDataStructure(0).settings EXCEPT
         !.unit_price = p, !.monthly_fee = m] :
       p \in {UNIT_PRICE, EditedUnitPrice}, m \in {MONTHLY_FEE, EditedMonthlyFee}}

\* the Document with another settings record
WithSettings(d, settings) == [d EXCEPT !.settings = settings]

InitTariff ==
    /\ now = 0
    /\ data = NoDoc
    /\ primary \in {JsonFile(WithSettings(InitializeDataStructure(0), st)) :
                       st \in SettingsChoices}
    /\ backups = EmptyDict
    /\ created = {}
    /\ last = NoAnswer
    /\ jobs = NoJobs
    /\ phase = "boot"
    /\ ncalls = 0

NextTariff ==
    \/ Uncounted(Boot(TRUE))
    \/ \E text \in {F(0), F(ExamplePrev), F(ExampleCur)} :
          Counted(HandleReading(<<"1">>, text, "ok"))
    \/ Uncounted(TickMonth)

SpecTariff == InitTariff /\ [][NextTariff]_vars

----------------------------------------------------------------------------
(* Vocabulary of the properties *)

\* the step is a call of handle_reading
ReadingStep == ncalls' = ncalls + 1 /\ last'.op = "handle_reading"

\* the invoice ids of a subscriber
InvoicesOf(d, user_id) == {i \in DOMAIN d.invoices : d.invoices[i].user_id = user_id}

\* the calendar month an invoice was computed in, as a number
PeriodOf(invoice) == MonthIndex(invoice.timestamp)

\* the id of the subscriber's invoice of the latest calendar month
MostRecentInvoice(d, user_id) ==
    CHOOSE i \in InvoicesOf(d, user_id) :
        \A j \in InvoicesOf(d, user_id) :
            PeriodOf(d.invoices[j]) <= PeriodOf(d.invoices[i])

----------------------------------------------------------------------------
(* C1: a reading below the current reading of the subscriber's most recent  *)
(* invoice is answered with the invalid-reading error, and the call leaves  *)
(* the in-memory Document, the primary file and the backup directory as     *)
(* they were.                                                               *)
C1_RejectedReadingPersistsNothing ==
    [][(/\ ReadingStep
        /\ last'.text # BadText
        /\ InvoicesOf(data, last'.user_id) # {}
        /\ FloatLt(last'.text,
                   data.invoices[MostRecentInvoice(data, last'.user_id)].current_reading))
       => (/\ last'.outcome = "invalid_reading"
           /\ data' = data
           /\ primary' = primary
           /\ backups' = backups)]_vars

\* a reading below the most recent one has just been rejected
C1_Witness ==
    /\ last.op = "handle_reading"
    /\ last.outcome = "invalid_reading"
    /\ InvoicesOf(data, last.user_id) # {}
    /\ FloatLt(last.text,
               data.invoices[MostRecentInvoice(data, last.user_id)].current_reading)
    /\ primary = JsonFile(data)

(* C2: the invoice of an accepted reading has consumption = current -       *)
(* previous and total = consumption * 700 + 250, with no rounding; previous *)
(* 100 and current 145 give consumption 45 and total 31750.                 *)
C2_AmountIsFlatFormula ==
    (last.op = "handle_reading" /\ last.outcome = "invoice") =>
        LET inv == last.invoice
            cur == inv.current_reading
            prev == inv.previous_reading
        IN /\ cur = last.text
           /\ data.invoices[last.invoice_id] = inv
           /\ IF IsNum(cur) /\ IsNum(prev)
              THEN /\ inv.consumption = F(cur.v - prev.v)
                   /\ inv.total_amount = F(((cur.v - prev.v) * 700) + 250)
              ELSE inv.consumption = NaN /\ inv.total_amount = NaN
           /\ (prev = F(100) /\ cur = F(145)) =>
                 (inv.consumption = F(45) /\ inv.total_amount = F(31750))

\* the example of the claim has just been computed
C2_Witness ==
    /\ last.op = "handle_reading"
    /\ last.outcome = "invoice"
    /\ last.invoice.previous_reading = F(ExamplePrev)
    /\ last.invoice.current_reading = F(ExampleCur)
    /\ last.invoice.consumption = F(ExampleCur - ExamplePrev)

(* C3: the Document never holds two invoices of one (subscriber, period);   *)
(* an accepted reading leaves exactly one invoice for its (subscriber,      *)
(* period), the one just computed, and changes no other invoice.            *)
C3_OneInvoicePerPeriod ==
    \A i, j \in DOMAIN data.invoices :
        (/\ data.invoices[i].user_id = data.invoices[j].user_id
         /\ data.invoices[i].year_month = data.invoices[j].year_month) => i = j

C3_UpsertStep ==
    (ReadingStep /\ last'.outcome = "invoice") =>
        LET inv == last'.invoice
            same == {i \in DOMAIN data'.invoices :
                       /\ data'.invoices[i].user_id = inv.user_id
                       /\ data'.invoices[i].year_month = inv.year_month}
        IN /\ inv.user_id = last'.user_id
           /\ inv.year_month = YearMonth(now)
           /\ Cardinality(same) = 1
           /\ \A i \in same : data'.invoices[i] = inv
           /\ \A i \in DOMAIN data.invoices :
                 (\/ data.invoices[i].user_id # inv.user_id
                  \/ data.invoices[i].year_month # inv.year_month)
                 => (i \in DOMAIN data'.invoices /\ data'.invoices[i] = data.invoices[i])
           /\ Cardinality(DOMAIN data'.invoices) =
                 Cardinality(DOMAIN data.invoices) +
                 (IF \E i \in DOMAIN data.invoices :
                        /\ data.invoices[i].user_id = inv.user_id
                        /\ data.invoices[i].year_month = inv.year_month
                  THEN 0 ELSE 1)

C3_IdempotentUpsert == []C3_OneInvoicePerPeriod /\ [][C3_UpsertStep]_vars

\* an invoice has been overwritten by a second reading of the same month,
\* while another subscriber holds an invoice of that month
C3_Witness ==
    /\ last.op = "handle_reading"
    /\ last.outcome = "invoice"
    /\ Cardinality(InvoicesOf(data, last.user_id)) = 1
    /\ last.invoice.previous_reading = F(ExamplePrev)
    /\ last.invoice.current_reading = F(ExampleCur)
    /\ \E u \in RuntimeUserIds \ {last.user_id} : InvoicesOf(data, u) # {}

(* C9: invoicesFor(subscriber, N) returns at most N invoices, all of that   *)
(* subscriber, in strictly descending order of calendar month, and they are *)
(* the invoices of the subscriber's N most recent months.                   *)
C9_InvoicesForNewestFirst ==
    \A u \in RuntimeUserIds : \A n \in 0..MaxLimit :
        LET r == GetUserInvoices(data, u, n)
            mine == {data.invoices[i] : i \in InvoicesOf(data, u)}
            got == {r[k] : k \in 1..Len(r)}
        IN /\ Len(r) <= n
           /\ Len(r) = Min(n, Cardinality(mine))
           /\ got \subseteq mine
           /\ \A k \in 1..Len(r) : r[k].user_id = u
           /\ \A k \in 1..(Len(r) - 1) : PeriodOf(r[k + 1]) < PeriodOf(r[k])
           /\ \A x \in mine \ got : \A y \in got : PeriodOf(x) < PeriodOf(y)

\* a subscriber with invoices of two months on either side of a year change,
\* of which a limit of 1 keeps the newer one, while another subscriber has
\* an invoice too
C9_Witness ==
    \E u \in RuntimeUserIds :
        /\ Cardinality(InvoicesOf(data, u)) = 2
        /\ \E i, j \in InvoicesOf(data, u) :
              /\ YearOf(data.invoices[i].timestamp) < YearOf(data.invoices[j].timestamp)
              /\ GetUserInvoices(data, u, 1) = <<data.invoices[j]>>
        /\ \E w \in RuntimeUserIds \ {u} : InvoicesOf(data, w) # {}

(* C10: for a subscriber without an invoice, every reading >= 0 is accepted *)
(* with 0 as the previous reading, and every negative reading is rejected.  *)
C10_FirstReading ==
    [][(/\ ReadingStep
        /\ IsNum(last'.text)
        /\ InvoicesOf(data, last'.user_id) = {})
       => IF last'.text.v >= 0
          THEN /\ last'.outcome = "invoice"
               /\ last'.invoice.previous_reading = F(0)
               /\ last'.invoice.current_reading = last'.text
               /\ InvoicesOf(data', last'.user_id) # {}
          ELSE /\ last'.outcome = "invalid_reading"
               /\ data' = data]_vars

\* the first call ever is a reading of 0, accepted against a previous reading of 0
C10_Witness ==
    /\ ncalls = 1
    /\ last.op = "handle_reading"
    /\ last.outcome = "invoice"
    /\ last.text = F(0)
    /\ last.invoice.previous_reading = F(0)
    /\ last.invoice.consumption = F(0)

(* C4: loading a primary file whose content is syntactically invalid leaves *)
(* a quarantine copy identical to that file and returns a fresh empty       *)
(* Document with the default settings.                                      *)
C4_InvalidContentIsQuarantined ==
    [][(/\ phase = "boot"
        /\ phase' = "run"
        /\ primary.kind \in {"malformed", "undecodable"})
       => (/\ data' = InitializeDataStructure(now)
           /\ primary' = primary
           /\ \E f \in DOMAIN backups' :
                 f.type = "corrupted" /\ backups'[f].content = primary)]_vars

(* C5: however many saves occur during one calendar day, at most one       *)
(* automatic backup is written that day: the first save of the day writes   *)
(* it and every later save of that day writes none.                         *)
C5_AtMostOneAutoPerDay ==
    \A a, b \in created :
        (a.type = "auto" /\ b.type = "auto" /\ a.day = b.day) => a = b

C5_SaveStep ==
    (ncalls' = ncalls + 1 /\ primary' = JsonFile(data') /\ last'.outcome # "raised") =>
        IF \E a \in created : a.type = "auto" /\ a.day = DayOf(now)
        THEN created' = created
        ELSE /\ created' = created \cup {BackupName("auto", now)}
             /\ BackupName("auto", now) \in DOMAIN backups'

C5_OneAutoBackupPerDay == []C5_AtMostOneAutoPerDay /\ [][C5_SaveStep]_vars

\* what a retention sweep makes of a directory
SweepPost(before, after) ==
    LET b == {f \in DOMAIN before : f.type \in {"auto", "manual"}}
        a == {f \in DOMAIN after : f.type \in {"auto", "manual"}}
    IN /\ Cardinality(a) = Min(Cardinality(b), 10)
       /\ a \subseteq b
       /\ \A k \in a : after[k] = before[k]
       /\ \A k \in a : \A x \in b \ a : before[x].mtime <= before[k].mtime
       /\ \A f \in DOMAIN before : f \notin b => (f \in DOMAIN after /\ after[f] = before[f])
       /\ \A f \in DOMAIN after : f \in DOMAIN before

(* C6: after a retention sweep the directory holds exactly min(count, 10)   *)
(* files of the backup naming pattern, the most recently modified ones: no  *)
(* file that is kept is older than a file that was deleted.                 *)
C6_RetentionKeepsNewestTen ==
    [][/\ CleanupJob => SweepPost(backups, backups')
       /\ BackupCommand =>
             SweepPost((BackupName("manual", now) :>
                           [mtime |-> now, content |-> JsonFile(data)]) @@ backups,
                       backups')]_vars

\* the weekly sweep has just deleted the two oldest of twelve backups
C6_Witness ==
    /\ last.op = "cleanup_backups"
    /\ Cardinality({f \in DOMAIN backups : f.type \in {"auto", "manual"}}) = 10
    /\ Cardinality({f \in created : f \notin DOMAIN backups}) = 2
    /\ \A f \in created : \A g \in DOMAIN backups :
          f \notin DOMAIN backups => f.sec < g.sec

\* the sends of a finished fan-out that had the given outcome
SendsWith(report, outcome) ==
    {u \in report.users : \E k \in 1..Len(report.attempts[u]) :
                             report.attempts[u][k] = outcome}

\* the counter a loop keeps under the given names, 0 when it keeps none
CounterNamed(report, names) ==
    IF \E n \in names : n \in DOMAIN report.counters
    THEN report.counters[CHOOSE n \in names : n \in DOMAIN report.counters]
    ELSE 0

(* C7: in a scheduled fan-out a failed delivery aborts nothing: every       *)
(* enumerated subscriber gets exactly one send attempt, and at the end of   *)
(* the job its failure counter is the number of sends that failed and its   *)
(* success counter the number that succeeded.                               *)
C7_ScheduledFanoutCountsFailures ==
    (last.op \in ScheduledKinds /\ last.outcome = "done") =>
        /\ \A u \in last.users : Len(last.attempts[u]) = 1
        /\ CounterNamed(last, {"failed_count"}) = Cardinality(SendsWith(last, "failed"))
        /\ CounterNamed(last, {"reminder_count", "count"}) =
              Cardinality(SendsWith(last, "sent"))

(* C8: force-send attempts exactly one send to every subscriber whose id    *)
(* parses as a delivery target, whatever the reminder flag, skips the       *)
(* others without counting them, and counts each attempted send once:       *)
(* success = sends that succeeded, failure = sends that failed, and         *)
(* success + failure = attempted sends.                                     *)
C8_ForceSendCountsEachSendOnce ==
    (last.op = "force_reminders" /\ last.outcome = "done") =>
        LET targets == {u \in last.users : ParsesAsInt(u)}
        IN /\ \A u \in targets : Len(last.attempts[u]) = 1
           /\ \A u \in last.users \ targets : Len(last.attempts[u]) = 0
           /\ last.skipped = last.users \ targets
           /\ last.counters.success_count = Cardinality(SendsWith(last, "sent"))
           /\ last.counters.failed_count = Cardinality(SendsWith(last, "failed"))
           /\ last.counters.success_count + last.counters.failed_count =
                 Cardinality(targets)

\* the subscriber's invoices of the calendar month before the given one
InvoicesOfMonthBefore(d, invoice) ==
    {i \in InvoicesOf(d, invoice.user_id) :
        PeriodOf(d.invoices[i]) = PeriodOf(invoice) - 1}

(* C11: the comparison shown with a new invoice is 'no comparison' when the *)
(* subscriber has no invoice of the month before the new one or that        *)
(* invoice's consumption is 0; otherwise it is (cur - prev) / prev * 100    *)
(* against that invoice, an increase when positive, a decrease when         *)
(* negative, unchanged when zero; prev = 40 and cur = 50 give +25.0%.       *)
C11_TrendAgainstPreviousPeriod ==
    (/\ last.op = "handle_reading"
     /\ last.outcome = "invoice"
     /\ IsNum(last.invoice.consumption)
     /\ \A i \in InvoicesOfMonthBefore(data, last.invoice) :
           IsNum(data.invoices[i].consumption)) =>
        LET before == InvoicesOfMonthBefore(data, last.invoice)
        IN IF before = {} \/ \E i \in before : data.invoices[i].consumption = F(0)
           THEN last.trend.label = "none"
           ELSE \E i \in before :
                  LET cur == last.invoice.consumption.v
                      prev == data.invoices[i].consumption.v
                  IN /\ last.trend.num * prev = (cur - prev) * 100 * last.trend.den
                     /\ last.trend.label =
                           IF (cur - prev) * prev > 0 THEN "increase"
                           ELSE IF (cur - prev) * prev < 0 THEN "decrease"
                           ELSE "unchanged"
                     /\ (prev = 40 /\ cur = 50) =>
                           (last.trend.label = "increase" /\ last.trend.shown = 250)

\* the subscriber's reminder flag is true, or the record has none
FlagOn(d, user_id) ==
    ("reminder_enabled" \in DOMAIN d.users[user_id]) => d.users[user_id].reminder_enabled

C12_EnumeratesEnabled(kind) ==
    (kind \notin DOMAIN jobs /\ kind \in DOMAIN jobs') =>
        /\ jobs'[kind].users = {u \in DOMAIN data.users : FlagOn(data, u)}
        /\ \A u \in jobs'[kind].users : jobs'[kind].attempts[u] = <<>>

C12_SendsToEnumerated(kind) ==
    (kind \in DOMAIN jobs /\ kind \in DOMAIN jobs') =>
        /\ jobs'[kind].users = jobs[kind].users
        /\ DOMAIN jobs'[kind].attempts = jobs[kind].users

C12_EndsWithOneSendEach(kind) ==
    (kind \in DOMAIN jobs /\ kind \notin DOMAIN jobs') =>
        /\ last'.op = kind
        /\ last'.users = jobs[kind].users
        /\ DOMAIN last'.attempts = last'.users
        /\ \A u \in last'.users : Len(last'.attempts[u]) = 1

(* C12: a scheduled fan-out (primary, secondary, startup) attempts a send   *)
(* to exactly the subscribers whose reminder flag is true or absent when    *)
(* the job enumerates them; a subscriber whose flag is false at that moment *)
(* receives nothing from that run, after any toggles.                       *)
C12_ScheduledFanoutFollowsFlag ==
    [][\A kind \in ScheduledKinds :
          /\ C12_EnumeratesEnabled(kind)
          /\ C12_SendsToEnumerated(kind)
          /\ C12_EndsWithOneSendEach(kind)]_vars

\* a scheduled job that sent to subscriber 2 has ended, subscriber 2 has
\* since disabled reminders, and the next scheduled job has enumerated the
\* subscribers without 2 but with the one whose record has no flag
C12_Witness ==
    /\ last.op \in ScheduledKinds
    /\ <<"2">> \in last.users
    /\ last.attempts[<<"2">>] = <<"sent">>
    /\ <<"2">> \in DOMAIN data.users
    /\ ~data.users[<<"2">>].reminder_enabled
    /\ \E kind \in ScheduledKinds :
          /\ kind \in DOMAIN jobs
          /\ jobs[kind].users = {<<"1">>, <<"x">>}
          /\ jobs[kind].pending = {}

\* the step is a handler call that reached save_data
SaveStep == ncalls' = ncalls + 1 /\ last'.saved # NoDoc

(* C13: a filesystem error during a save, in the backup step or in the      *)
(* write of the primary file, reaches the caller as a store-level failure,  *)
(* not as the raw I/O exception, and the in-memory Document is what it was  *)
(* when save was called.                                                    *)
C13_SaveFailureIsStoreFailure ==
    [][(SaveStep /\ last'.io # "ok") =>
          /\ last'.error = "StoreError"
          /\ data' = last'.saved]_vars

\* the backup directory holds a quarantine copy of the file
Quarantined(dir, file) ==
    \E f \in DOMAIN dir : f.type = "corrupted" /\ dir[f].content = file

\* load has returned a fresh Document although the primary file exists and
\* does not hold a Document
C14_FreshOverExistingFile ==
    /\ phase = "boot"
    /\ phase' = "run"
    /\ primary.kind \notin {"absent", "json"}
    /\ data' = InitializeDataStructure(now)

(* C14: whenever load returns a fresh empty Document although a primary     *)
(* file exists, a quarantine copy of that file has been written first, so   *)
(* that a later save never overwrites the only copy of the original bytes.  *)
C14_NeverEmptyWithoutQuarantine ==
    [][/\ C14_FreshOverExistingFile => Quarantined(backups', primary)
       /\ (phase = "run" /\ phase' = "run" /\ primary' # primary
             /\ primary.kind \notin {"absent", "json"})
          => Quarantined(backups, primary)]_vars

\* the files of a directory that carry the backup naming pattern
BackupFilesOf(dir) == {f \in DOMAIN dir : f.type \in {"auto", "manual"}}

\* the quarantine files of a directory
QuarantineFilesOf(dir) == {f \in DOMAIN dir : f.type = "corrupted"}

(* C15: a quarantine file, once written, is never deleted or modified by a  *)
(* later operation: sweeps, automatic and manual backups leave it in place  *)
(* and do not count it towards the 10 retained backups.                     *)
C15_QuarantineIsKept ==
    [][/\ \A f \in QuarantineFilesOf(backups) :
             f \in DOMAIN backups' /\ backups'[f] = backups[f]
       /\ CleanupJob =>
             Cardinality(BackupFilesOf(backups')) =
                Min(Cardinality(BackupFilesOf(backups)), 10)
       /\ BackupCommand =>
             Cardinality(BackupFilesOf(backups')) =
                Min(Cardinality(BackupFilesOf(backups) \cup {BackupName("manual", now)}),
                    10)
       /\ (ncalls' = ncalls + 1) =>
             Cardinality(BackupFilesOf(backups')) =
                Min(Cardinality(BackupFilesOf(backups) \cup (created' \ created)), 10)]_vars

\* next to a quarantine file the weekly sweep has cut twelve backups down
\* to ten
C15_Witness ==
    /\ last.op = "cleanup_backups"
    /\ QuarantineFilesOf(backups) # {}
    /\ \A f \in QuarantineFilesOf(backups) :
          backups[f].content = BrokenFile("malformed", "found")
    /\ Cardinality(BackupFilesOf(backups)) = 10
    /\ Cardinality(created \ DOMAIN backups) = 2

(* C16: after saveInvoice(inv) has returned, the owning subscriber exists,  *)
(* its cached last reading is inv's current reading and its cached last     *)
(* period is inv's period, the invoice is retrievable by (subscriber,       *)
(* period) with inv's values, and the returned key is subscriber id + "_" + *)
(* period.                                                                  *)
C16_SaveInvoicePostcondition ==
    (last.op = "handle_reading" /\ last.outcome = "invoice") =>
        LET inv == last.invoice
            u == inv.user_id
        IN /\ u = last.user_id
           /\ u \in DOMAIN data.users
           /\ "last_reading" \in DOMAIN data.users[u]
           /\ data.users[u].last_reading = inv.current_reading
           /\ "last_invoice_date" \in DOMAIN data.users[u]
           /\ data.users[u].last_invoice_date = inv.year_month
           /\ GetInvoiceByMonth(data, u, inv.year_month) = inv
           /\ last.invoice_id = u \o <<"_">> \o inv.year_month
           /\ primary = JsonFile(data)

\* the second invoice of a subscriber, of a later month, has been saved: the
\* cached reading went from 100 to 145
C16_Witness ==
    /\ last.op = "handle_reading"
    /\ last.outcome = "invoice"
    /\ Cardinality(InvoicesOf(data, last.user_id)) = 2
    /\ last.invoice.previous_reading = F(ExamplePrev)
    /\ data.users[last.user_id].last_reading = F(ExampleCur)
    /\ data.users[last.user_id].last_invoice_date = YearMonth(now)

(* C17: get_user is get-or-create. Called on an id absent from the Document *)
(* it adds a default record with reminder_enabled = TRUE and returns it;    *)
(* called on an id already present it returns the existing record and       *)
(* leaves the Document unchanged. No call made through it resets a field of *)
(* any subscriber to its default: the creation time of every subscriber     *)
(* stays, and the flag of a subscriber changes only by that subscriber's    *)
(* own toggle, to the opposite of what it was.                              *)
C17_GetOrCreate ==
    [][ncalls' = ncalls + 1 =>
        LET u == last'.user_id
        IN /\ last'.op = "show_reminder_settings" =>
                IF u \in DOMAIN data.users
                THEN /\ data' = data
                     /\ last'.user = data.users[u]
                ELSE /\ DOMAIN data'.users = DOMAIN data.users \cup {u}
                     /\ \A v \in DOMAIN data.users :
                           data'.users[v] = data.users[v]
                     /\ data'.invoices = data.invoices
                     /\ data'.users[u].reminder_enabled = TRUE
                     /\ data'.users[u].first_name = ""
                     /\ data'.users[u].created_at = now
                     /\ last'.user = data'.users[u]
           /\ \A v \in DOMAIN data.users :
                /\ v \in DOMAIN data'.users
                /\ data'.users[v].created_at = data.users[v].created_at
                /\ IF last'.op = "toggle_reminder" /\ v = u
                   THEN data'.users[v].reminder_enabled
                            = ~data.users[v].reminder_enabled
                   ELSE data'.users[v].reminder_enabled
                            = data.users[v].reminder_enabled
                /\ (last'.op # "start" \/ v # u) =>
                       data'.users[v].first_name = data.users[v].first_name
    ]_vars

\* the settings screen was opened by a subscriber created in an earlier
\* month who had switched reminders off, after it had been opened by a
\* subscriber not yet in the Document
C17_Witness ==
    /\ last.op = "show_reminder_settings"
    /\ last.outcome = "disabled"
    /\ last.user.reminder_enabled = FALSE
    /\ last.user.created_at < now
    /\ \E v \in DOMAIN data.users :
          /\ v # last.user_id
          /\ data.users[v].reminder_enabled
          /\ data.users[v].created_at = now
          /\ v \notin DOMAIN primary.doc.users

(* C18: while the bot runs, no step of a handler, a backup, a retention     *)
(* sweep or a reminder job removes a subscriber id or an invoice key from   *)
(* the Document, and a stored invoice changes only when an accepted reading *)
(* of the same subscriber in the same period is saved under the same key.   *)
C18_KeysOnlyGrow ==
    [][/\ DOMAIN data.users \subseteq DOMAIN data'.users
       /\ DOMAIN data.invoices \subseteq DOMAIN data'.invoices
       /\ \A k \in DOMAIN data.invoices :
             data'.invoices[k] # data.invoices[k] =>
                /\ ncalls' = ncalls + 1
                /\ last'.op = "handle_reading"
                /\ last'.outcome = "invoice"
                /\ last'.invoice_id = k
                /\ data'.invoices[k] = last'.invoice
                /\ data.invoices[k].user_id = last'.user_id
                /\ data.invoices[k].year_month = last'.invoice.year_month
                /\ data.invoices[k].year_month = YearMonth(now)
    ]_vars

\* a manual backup was made, and the one invoice of a subscriber is the
\* second reading of its month, saved over the first
C18_Witness ==
    /\ \E f \in created : f.type = "manual"
    /\ last.op = "handle_reading"
    /\ last.outcome = "invoice"
    /\ last.previous_reading = F(ExamplePrev)
    /\ Cardinality(InvoicesOf(data, last.user_id)) = 1
    /\ data.invoices[last.invoice_id].consumption = F(0)

(* C19: with handlers and jobs interleaved at their awaits, every write of  *)
(* the Document is one uninterrupted step. A reading is validated against   *)
(* the last reading the Document holds at the moment its invoice is saved,  *)
(* so of two submissions of one subscriber in flight together the later one *)
(* is validated against the earlier one's reading; the save changes that    *)
(* subscriber's record and that invoice key only and keeps the reminder     *)
(* flag; a toggle changes its subscriber's record only and keeps the cached *)
(* reading; every write is in the primary file when the step ends; the      *)
(* steps of a reminder job and the awaits of a handler write nothing.       *)
C19_OneWriterAtATime ==
    [][/\ data'.invoices # data.invoices =>
            /\ last'.op = "handle_reading"
            /\ last'.outcome = "invoice"
            /\ LET u == last'.user_id
                   inv == last'.invoice
                   k == last'.invoice_id
                   prev == PyOr(GetLastReading(data, u), F(0))
               IN /\ inv.previous_reading = prev
                  /\ ~ReadingRejected(inv.current_reading, prev)
                  /\ inv.year_month = YearMonth(now)
                  /\ data'.invoices[k] = inv
                  /\ data'.users[u].last_reading = inv.current_reading
                  /\ \A j \in DOMAIN data.invoices \ {k} :
                        data'.invoices[j] = data.invoices[j]
                  /\ \A v \in DOMAIN data.users \ {u} :
                        data'.users[v] = data.users[v]
                  /\ u \in DOMAIN data.users =>
                        data'.users[u].reminder_enabled
                            = data.users[u].reminder_enabled
       /\ (data'.invoices = data.invoices /\ data' # data) =>
            /\ last'.op = "toggle_reminder"
            /\ ncalls' = ncalls + 1
            /\ LET u == last'.user_id
               IN /\ \A v \in DOMAIN data.users \ {u} :
                        data'.users[v] = data.users[v]
                  /\ (u \in DOMAIN data.users
                        /\ "last_reading" \in DOMAIN data.users[u]) =>
                        /\ "last_reading" \in DOMAIN data'.users[u]
                        /\ data'.users[u].last_reading
                               = data.users[u].last_reading
       /\ data' # data => primary' = JsonFile(data')
       /\ DOMAIN data.users \subseteq DOMAIN data'.users
       /\ DOMAIN data.invoices \subseteq DOMAIN data'.invoices
    ]_vars

\* two submissions of one subscriber were in flight together, both have
\* saved their invoice and are suspended in the reply, the later one
\* validated against the reading of the earlier one, while a reminder job
\* is in flight
C19_Witness ==
    /\ "monthly_reminder" \in DOMAIN jobs
    /\ last.op = "handle_reading"
    /\ last.outcome = "invoice"
    /\ last.previous_reading = F(ExamplePrev)
    /\ last.invoice.current_reading = F(ExampleCur)
    /\ \E a, b \in DOMAIN jobs \cap UpdateIds :
          /\ a # b
          /\ jobs[a].user_id = jobs[b].user_id
          /\ jobs[a].at = 3
          /\ jobs[b].at = 3
          /\ jobs[a].c.invoice.current_reading = F(ExamplePrev)
          /\ jobs[b].c.invoice = last.invoice

(* C20: no scheduled job (the two reminders, the daily backup, the weekly   *)
(* cleanup, the start-up notification) lets an exception out, whatever      *)
(* delivery or filesystem failure occurs in its run, and a job that finds   *)
(* no subscriber ends without a send and without a failure.                 *)
C20_NoJobRaises ==
    /\ last.op \in {"daily_backup", "cleanup_backups"} =>
          last.outcome = "done" /\ last.error = "none"
    /\ last.op \in ScheduledKinds =>
          /\ last.outcome = "done"
          /\ last.users = {} =>
                /\ DOMAIN last.attempts = {}
                /\ \A n \in DOMAIN last.counters : last.counters[n] = 0

(* C21: every reminder fan-out that has started eventually finishes, also  *)
(* when the delivery channel never answers for one subscriber.              *)
C21_FanoutFinishes ==
    \A kind \in JobKinds : (kind \in DOMAIN jobs) ~> (kind \notin DOMAIN jobs)

(* C22: for each subscriber the current readings of the stored invoices    *)
(* are non-decreasing in period order, and every stored invoice has a       *)
(* consumption >= 0.                                                        *)
C22_ReadingsNonDecreasing ==
    /\ \A i, j \in DOMAIN data.invoices :
          (/\ data.invoices[i].user_id = data.invoices[j].user_id
           /\ PeriodOf(data.invoices[i]) < PeriodOf(data.invoices[j])) =>
             /\ IsNum(data.invoices[i].current_reading)
             /\ IsNum(data.invoices[j].current_reading)
             /\ data.invoices[i].current_reading.v
                    <= data.invoices[j].current_reading.v
    /\ \A i \in DOMAIN data.invoices :
          /\ IsNum(data.invoices[i].consumption)
          /\ data.invoices[i].consumption.v >= 0

(* C23: after update_user (/start, the toggle) or save_invoice (an accepted *)
(* reading) has returned without an exception, the primary file holds the   *)
(* whole in-memory Document and nothing else, also when earlier saves have  *)
(* failed, and loading the file gives a Document equal to the one in        *)
(* memory.                                                                  *)
C23_FileHoldsWholeDocument ==
    [][(SaveStep /\ last'.error = "none") =>
          /\ primary'.kind = "json"
          /\ primary'.doc = data'
          /\ JsonLoad(JsonDump(primary'.doc)) = data'
          /\ JsonLoadError(primary') = "none"
          /\ LoadData(backups', primary', now, TRUE).data = data'
          /\ data' = last'.saved]_vars

\* the second invoice of the ledger was saved on a later day than the
\* first: the file holds both, an automatic backup of an earlier day holds
\* the Document with one
C23_Witness ==
    /\ last.op = "handle_reading"
    /\ last.outcome = "invoice"
    /\ last.io = "ok"
    /\ Cardinality(DOMAIN data.invoices) = 2
    /\ primary = JsonFile(data)
    /\ \E f \in DOMAIN backups :
          /\ backups[f].content.kind = "json"
          /\ Cardinality(DOMAIN backups[f].content.doc.invoices) = 1
          /\ f.day < DayOf(now)

(* C24: under any interleaving of saves, runs of the daily backup job,      *)
(* manual backups and retention sweeps within a day, once an automatic      *)
(* backup has been written on that day no later step of the day writes      *)
(* another one.                                                             *)
C24_NoSecondAutoBackup ==
    [][(\E f \in created : f.type = "auto" /\ f.day = DayOf(now)) =>
          \A g \in created' \ created :
              ~(g.type = "auto" /\ g.day = DayOf(now))]_vars

(* C25: for each subscriber the stored invoices form a chain: the previous  *)
(* reading of every invoice is the current reading of that subscriber's     *)
(* invoice of the closest earlier period, or 0 when it is the subscriber's  *)
(* earliest invoice.                                                        *)
C25_InvoicesFormChain ==
    \A i \in DOMAIN data.invoices :
        LET inv == data.invoices[i]
            earlier == {j \in InvoicesOf(data, inv.user_id) :
                           PeriodOf(data.invoices[j]) < PeriodOf(inv)}
        IN IF earlier = {}
           THEN inv.previous_reading = F(0)
           ELSE \E j \in earlier :
                   /\ \A k \in earlier :
                         PeriodOf(data.invoices[k]) <= PeriodOf(data.invoices[j])
                   /\ inv.previous_reading = data.invoices[j].current_reading

(* C26: save_invoice changes the Document in memory before it saves and    *)
(* does not undo the change when the save fails. After a failed save in     *)
(* handle_reading the caller gets the server-error answer, the new invoice  *)
(* and the subscriber's refreshed last reading are in the Document in       *)
(* memory, the primary file holds what it held before or a cut text and so  *)
(* lacks whatever the submission changed, and every later submission of     *)
(* the subscriber is validated against the reading held in memory,          *)
(* persisted or not.                                                        *)
C26_NoRollbackOnFailedSave ==
    [][ReadingStep =>
          LET u == last'.user_id
              prev == PyOr(GetLastReading(data, u), F(0))
          IN /\ last'.previous_reading = prev
             /\ (last'.outcome = "invalid_reading")
                    = ReadingRejected(last'.text, prev)
             /\ last'.error # "none" =>
                   /\ last'.outcome = "server_error"
                   /\ last'.invoice_id = <<>>
                   /\ InvoiceId(last'.invoice) \in DOMAIN data'.invoices
                   /\ data'.invoices[InvoiceId(last'.invoice)] = last'.invoice
                   /\ data'.users[u].last_reading = last'.invoice.current_reading
                   /\ GetLastReading(data', u) = last'.invoice.current_reading
                   /\ primary' = primary \/ primary'.kind # "json"
                   /\ data' # data => primary' # JsonFile(data')
    ]_vars

\* a reading of 100 is refused against the reading 145 whose save had
\* failed: 145 is in memory and no primary file was ever written
C26_Witness ==
    /\ last.op = "handle_reading"
    /\ last.outcome = "invalid_reading"
    /\ last.text = F(ExamplePrev)
    /\ last.previous_reading = F(ExampleCur)
    /\ primary = AbsentFile
    /\ Cardinality(DOMAIN data.invoices) = 1

(* C27: the recipients of a fan-out are fixed when it enumerates them: the  *)
(* subscribers whose flag is on for a scheduled job, all subscribers for    *)
(* the force-send. Toggles and new subscribers while the run is suspended   *)
(* in a send do not change them, no subscriber is sent to twice in a run,   *)
(* and the run ends with one send to each recipient (none to an id the      *)
(* force-send cannot turn into a chat id).                                  *)
C27_RecipientsFixedAtStart ==
    [][\A kind \in JobKinds :
          /\ (kind \notin DOMAIN jobs /\ kind \in DOMAIN jobs') =>
                jobs'[kind].users =
                    IF kind = "force_reminders" THEN DOMAIN data.users
                    ELSE {u \in DOMAIN data.users : FlagOn(data, u)}
          /\ (kind \in DOMAIN jobs /\ kind \in DOMAIN jobs') =>
                /\ jobs'[kind].users = jobs[kind].users
                /\ DOMAIN jobs'[kind].attempts = jobs[kind].users
                /\ \A u \in jobs[kind].users :
                      /\ Len(jobs'[kind].attempts[u]) <= 1
                      /\ Len(jobs'[kind].attempts[u]) >= Len(jobs[kind].attempts[u])
          /\ (kind \in DOMAIN jobs /\ kind \notin DOMAIN jobs') =>
                /\ last'.op = kind
                /\ last'.users = jobs[kind].users
                /\ DOMAIN last'.attempts = last'.users
                /\ last'.skipped =
                      IF kind = "force_reminders"
                      THEN {u \in last'.users : ~ParsesAsInt(u)} ELSE {}
                /\ \A u \in last'.users :
                      Len(last'.attempts[u]) = IF u \in last'.skipped THEN 0 ELSE 1
    ]_vars

\* a scheduled job has sent to one recipient and is about to send to
\* subscriber 2, who has switched reminders off since the job enumerated
\* its recipients
C27_Witness ==
    \E kind \in ScheduledKinds \cap DOMAIN jobs :
        /\ <<"2">> \in jobs[kind].pending
        /\ <<"2">> \in DOMAIN data.users
        /\ data.users[<<"2">>].reminder_enabled = FALSE
        /\ \E u \in jobs[kind].users : jobs[kind].attempts[u] # <<>>

\* the directory holds an automatic backup of the day of t
HasAutoBackupOfDay(dir, t) ==
    \E f \in DOMAIN dir : f.type = "auto" /\ f.day = DayOf(t)

C29_InvoiceIndependentOfSettings ==
    [][(ncalls' = ncalls + 1 /\ last'.op = "handle_reading" /\ last'.text # BadText) =>
          /\ \A st \in SettingsChoices :
                CalculateInvoice(WithSettings(data, st), last'.user_id,
                                 last'.text, now)
                  = CalculateInvoice(data, last'.user_id, last'.text, now)
          /\ last'.outcome = "invoice" =>
                /\ last'.invoice = CalculateInvoice(data, last'.user_id,
                                                    last'.text, now).invoice
                /\ last'.invoice.consumption =
                      FloatSub(last'.text, last'.previous_reading)
                /\ last'.invoice.total_amount =
                      FloatAdd(FloatMul(last'.invoice.consumption, F(700)), F(250))
                /\ data'.invoices[last'.invoice_id].total_amount =
                      last'.invoice.total_amount
                /\ data'.settings = data.settings]_vars

\* in a ledger whose settings give another unit price and another fee, the
\* second reading of a subscriber was billed at 700 a unit plus 250
C29_Witness ==
    /\ last.op = "handle_reading"
    /\ last.outcome = "invoice"
    /\ data.settings.unit_price = EditedUnitPrice
    /\ data.settings.monthly_fee = EditedMonthlyFee
    /\ last.previous_reading = F(ExamplePrev)
    /\ last.invoice.consumption = F(ExampleCur - ExamplePrev)
    /\ last.invoice.total_amount = F((ExampleCur - ExamplePrev) * 700 + 250)
    /\ last.invoice.total_amount #
          F((ExampleCur - ExamplePrev) * data.settings.unit_price
              + data.settings.monthly_fee)
    /\ data.invoices[last.invoice_id].total_amount = last.invoice.total_amount

====
